---- MODULE Spec2Model ----
(***************************************************************************)
(* Model of tools/wix-light-wrapper/light_wrapper.rs: a wrapper placed as  *)
(* light.exe that forwards its arguments, with -sval and -sacl enforced,   *)
(* to the sibling light-real.exe and relays the child's exit code.         *)
(*                                                                         *)
(* Command-line tokens are sequences of byte values, so that the           *)
(* ASCII-case-insensitive comparison is computed byte by byte.             *)
(* Option<T> is a sequence of length 0 (None) or 1 (Some).                 *)
(***************************************************************************)
EXTENDS Integers, Sequences, FiniteSets, TLC

VARIABLES pc, argv, current_exe, real_exe, exists_result, incoming_args,
          args, child, stderr, exit_code, steps

vars == <<pc, argv, current_exe, real_exe, exists_result, incoming_args,
          args, child, stderr, exit_code, steps>>

\* ---------------------------------------------------------------- bounds
MaxArgs == 3

\* ------------------------------------------------------------- Option<T>
None == <<>>
Some(x) == <<x>>
IsSome(o) == Len(o) = 1
Unwrap(o) == o[1]

\* ---------------------------------------------------------------- tokens
FlagSval == <<45, 115, 118, 97, 108>>
FlagSacl == <<45, 115, 97, 99, 108>>
TokSvalUpper == <<45, 83, 86, 65, 76>>
TokSvalMixed == <<45, 83, 118, 65, 108>>
TokSaclUpper == <<45, 83, 65, 67, 76>>
TokFooSval == <<102, 111, 111, 45, 115, 118, 97, 108>>
TokFooWixobj == <<102, 111, 111, 46, 119, 105, 120, 111, 98, 106>>
TokLightExe == <<108, 105, 103, 104, 116, 46, 101, 120, 101>>
\* an argument that is not valid Unicode (0xFF occurs in no UTF-8 text)
TokNotUnicode == <<102, 255>>

Tokens == {FlagSval, FlagSacl, TokSvalUpper, TokSvalMixed, TokSaclUpper,
           TokFooSval, TokFooWixobj, TokNotUnicode}

ArgVectors == UNION {[1..n -> Tokens] : n \in 0..MaxArgs}

\* ------------------------------------------------------------ environment
\* Paths are [abs, comps]: a root marker and the components below it.
SelfPaths == { [abs |-> TRUE,  comps |-> <<"wix", "light.exe">>],
               [abs |-> FALSE, comps |-> <<"light.exe">>],
               [abs |-> TRUE,  comps |-> <<>>] }
ExitCodes == {0, 1, 3, 255}
ExitStatuses == {Some(c) : c \in ExitCodes} \cup {None}
NoChild == [state |-> "none", path |-> None, args |-> <<>>, status |-> None]

\* ------------------------------------------------------------ pure helpers
ToAsciiLowercase(b) == IF b \in 65..90 THEN b + 32 ELSE b

EqIgnoreAsciiCaseExact(a, b) == a = b

EqIgnoreAsciiCase(a, b) ==
    /\ Len(a) = Len(b)
    /\ \A i \in 1..Len(a) : ToAsciiLowercase(a[i]) = ToAsciiLowercase(b[i])

HasFlagFirstOnly(flag, a) == Len(a) > 0 /\ EqIgnoreAsciiCase(a[1], flag)

HasFlagSubstring(flag, a) ==
    \E i \in 1..Len(a) : \E k \in 0..Len(a[i]) :
        k + Len(flag) <= Len(a[i])
        /\ EqIgnoreAsciiCase(SubSeq(a[i], k + 1, k + Len(flag)), flag)

HasFlag(flag, a) == \E i \in 1..Len(a) : EqIgnoreAsciiCase(a[i], flag)

AugmentSwapped(inc) ==
    (IF ~HasFlag(FlagSacl, inc) THEN <<FlagSacl>> ELSE <<>>)
    \o (IF ~HasFlag(FlagSval, inc) THEN <<FlagSval>> ELSE <<>>)
    \o inc

AugmentJoint(inc) ==
    (IF ~HasFlag(FlagSval, inc) /\ ~HasFlag(FlagSacl, inc)
     THEN <<FlagSval, FlagSacl>> ELSE <<>>) \o inc

AugmentAlways(inc) == <<FlagSval, FlagSacl>> \o inc

AugmentArgs(inc) ==
    (IF ~HasFlag(FlagSval, inc) THEN <<FlagSval>> ELSE <<>>)
    \o (IF ~HasFlag(FlagSacl, inc) THEN <<FlagSacl>> ELSE <<>>)
    \o inc

\* OsString::into_string() succeeds.  Bytes 0xC0, 0xC1 and 0xF5..0xFF occur
\* in no UTF-8 text and bytes below 0x80 are ASCII; the tokens of this model
\* hold no other bytes.
IsValidUnicode(tok) ==
    \A i \in 1..Len(tok) : tok[i] \notin ({192, 193} \cup (245..255))

SkipFirst(s) == IF Len(s) = 0 THEN <<>> ELSE Tail(s)

Parent(p) ==
    IF Len(p.comps) = 0 THEN None
    ELSE Some([abs |-> p.abs, comps |-> SubSeq(p.comps, 1, Len(p.comps) - 1)])

Join(p, name) == [abs |-> p.abs, comps |-> Append(p.comps, name)]

DotPath == [abs |-> FALSE, comps |-> <<".">>]

RealExeOf(p) ==
    Join(IF IsSome(Parent(p)) THEN Unwrap(Parent(p)) ELSE DotPath,
         "light-real.exe")

FallbackCode == 1

ExitStatusCodeZero(status) == IF IsSome(status) THEN Unwrap(status) ELSE 0

ExitStatusCode(status) ==
    IF IsSome(status) THEN Unwrap(status) ELSE FallbackCode

\* ------------------------------------------------------------------ init
Init ==
    /\ pc = "resolve"
    /\ argv \in {<<TokLightExe>> \o v : v \in ArgVectors}
    /\ current_exe = None
    /\ real_exe = None
    /\ exists_result = None
    /\ incoming_args = <<>>
    /\ args = <<>>
    /\ child = NoChild
    /\ stderr = <<>>
    /\ exit_code = None
    /\ steps = <<>>

\* --------------------------------------------------------------- actions
\* env::current_exe() returns Ok(p)
ResolveSelfOk ==
    /\ pc = "resolve"
    /\ \E p \in SelfPaths : current_exe' = Some(p)
    /\ pc' = "derive"
    /\ steps' = Append(steps, "resolve")
    /\ UNCHANGED <<argv, real_exe, exists_result, incoming_args, args, child,
                   stderr, exit_code>>

\* env::current_exe() returns Err(e): eprintln, exit(1)
ResolveSelfErr ==
    /\ pc = "resolve"
    /\ stderr' = Append(stderr, [kind |-> "current_exe", path |-> None,
                                 cause |-> Some("e")])
    /\ exit_code' = Some(1)
    /\ pc' = "done"
    /\ steps' = steps \o <<"resolve", "exit">>
    /\ UNCHANGED <<argv, current_exe, real_exe, exists_result, incoming_args,
                   args, child>>

\* real_exe = current_exe.parent().unwrap_or(".").join("light-real.exe")
DeriveTarget ==
    /\ pc = "derive"
    /\ real_exe' = Some(RealExeOf(Unwrap(current_exe)))
    /\ pc' = "check"
    /\ UNCHANGED <<argv, current_exe, exists_result, incoming_args, args,
                   child, stderr, exit_code, steps>>

ExistenceCheckMissingSilent ==
    /\ pc = "check"
    /\ exists_result' = Some(FALSE)
    /\ exit_code' = Some(0)
    /\ pc' = "done"
    /\ steps' = steps \o <<"check", "exit">>
    /\ UNCHANGED <<argv, current_exe, real_exe, incoming_args, args, child,
                   stderr>>

\* real_exe.exists() is false: eprintln naming the path, exit(1)
ExistenceCheckMissing ==
    /\ pc = "check"
    /\ exists_result' = Some(FALSE)
    /\ stderr' = Append(stderr, [kind |-> "missing", path |-> real_exe,
                                 cause |-> None])
    /\ exit_code' = Some(1)
    /\ pc' = "done"
    /\ steps' = steps \o <<"check", "exit">>
    /\ UNCHANGED <<argv, current_exe, real_exe, incoming_args, args, child>>

\* real_exe.exists() is true
ExistenceCheckPresent ==
    /\ pc = "check"
    /\ exists_result' = Some(TRUE)
    /\ pc' = "args"
    /\ steps' = Append(steps, "check")
    /\ UNCHANGED <<argv, current_exe, real_exe, incoming_args, args, child,
                   stderr, exit_code>>

\* env::args() yields Strings and panics during iteration on an argument
\* that is not valid Unicode; skip(1) and collect() iterate over all of them.
\* The panic message goes to standard error and the process exits with the
\* runtime's panic code 101.
ReadArgsPanic ==
    /\ pc = "args"
    /\ \E i \in 1..Len(argv) : ~IsValidUnicode(argv[i])
    /\ stderr' = Append(stderr, [kind |-> "panic", path |-> None,
                                 cause |-> Some("invalid unicode")])
    /\ exit_code' = Some(101)
    /\ pc' = "done"
    /\ steps' = Append(steps, "exit")
    /\ UNCHANGED <<argv, current_exe, real_exe, exists_result, incoming_args,
                   args, child>>

\* incoming_args = env::args().skip(1).collect()
ReadArgs ==
    /\ pc = "args"
    /\ \A i \in 1..Len(argv) : IsValidUnicode(argv[i])
    /\ incoming_args' = SkipFirst(argv)
    /\ pc' = "augment"
    /\ UNCHANGED <<argv, current_exe, real_exe, exists_result, args, child,
                   stderr, exit_code, steps>>

\* push each absent flag, then args.append(&mut incoming_args), which moves
\* the caller's arguments and leaves incoming_args empty
Augment ==
    /\ pc = "augment"
    /\ args' = AugmentArgs(incoming_args)
    /\ incoming_args' = <<>>
    /\ pc' = "spawn"
    /\ UNCHANGED <<argv, current_exe, real_exe, exists_result, child, stderr,
                   exit_code, steps>>

\* Command::new(&real_exe).args(&args).status(): the child is started
SpawnOk ==
    /\ pc = "spawn"
    /\ child' = [state |-> "running", path |-> real_exe, args |-> args,
                 status |-> None]
    /\ pc' = "wait"
    /\ steps' = Append(steps, "spawn")
    /\ UNCHANGED <<argv, current_exe, real_exe, exists_result, incoming_args,
                   args, stderr, exit_code>>

\* Command::status() returns Err(e): eprintln naming path and cause, exit(1)
SpawnFail ==
    /\ pc = "spawn"
    /\ stderr' = Append(stderr, [kind |-> "spawn", path |-> real_exe,
                                 cause |-> Some("e")])
    /\ exit_code' = Some(1)
    /\ pc' = "done"
    /\ steps' = steps \o <<"spawn", "exit">>
    /\ UNCHANGED <<argv, current_exe, real_exe, exists_result, incoming_args,
                   args, child>>

\* the child process terminates, with or without an exit code
ChildTerminates ==
    /\ child.state = "running"
    /\ \E s \in ExitStatuses :
          child' = [child EXCEPT !.state = "exited", !.status = s]
    /\ UNCHANGED <<pc, argv, current_exe, real_exe, exists_result,
                   incoming_args, args, stderr, exit_code, steps>>

WaitExitEarly ==
    /\ pc = "wait"
    /\ exit_code' = Some(ExitStatusCode(child.status))
    /\ pc' = "done"
    /\ steps' = steps \o <<"wait", "exit">>
    /\ UNCHANGED <<argv, current_exe, real_exe, exists_result, incoming_args,
                   args, child, stderr>>

\* status() returns Ok(s) once the child has terminated;
\* exit(status.code().unwrap_or(1))
WaitExit ==
    /\ pc = "wait"
    /\ child.state = "exited"
    /\ exit_code' = Some(ExitStatusCode(child.status))
    /\ pc' = "done"
    /\ steps' = steps \o <<"wait", "exit">>
    /\ UNCHANGED <<argv, current_exe, real_exe, exists_result, incoming_args,
                   args, child, stderr>>

WrapperStep ==
    \/ ResolveSelfOk
    \/ ResolveSelfErr
    \/ DeriveTarget
    \/ ExistenceCheckMissing
    \/ ExistenceCheckPresent
    \/ ReadArgsPanic
    \/ ReadArgs
    \/ Augment
    \/ SpawnOk
    \/ SpawnFail
    \/ WaitExit

Next ==
    \/ ResolveSelfOk
    \/ ResolveSelfErr
    \/ DeriveTarget
    \/ ExistenceCheckMissing
    \/ ExistenceCheckPresent
    \/ ReadArgsPanic
    \/ ReadArgs
    \/ Augment
    \/ SpawnOk
    \/ SpawnFail
    \/ ChildTerminates
    \/ WaitExit

Spec == Init /\ [][Next]_vars

\* The wrapper is a running single-threaded process: an enabled step of main
\* is eventually taken.  Nothing forces the child to terminate.
FairSpec == Spec /\ WF_vars(WrapperStep)

TypeOK ==
    /\ pc \in {"resolve", "derive", "check", "args", "augment", "spawn", "wait",
             "done"}
    /\ Len(argv) <= MaxArgs + 1
    /\ child.state \in {"none", "running", "exited"}
    /\ Len(exit_code) <= 1
    /\ Len(incoming_args) <= MaxArgs
    /\ Len(args) <= MaxArgs + 2

\* ------------------------------------------------------ claim vocabulary
\* The caller's argument vector: everything after the program's own token.
V == SubSeq(argv, 2, Len(argv))

ToUpper(b) == IF b \in 97..122 THEN b - 32 ELSE b

\* tok is the flag written in some letter case
IsCasingOf(tok, flag) ==
    /\ Len(tok) = Len(flag)
    /\ \A i \in 1..Len(flag) : tok[i] = flag[i] \/ tok[i] = ToUpper(flag[i])

Contains(vec, flag) == \E i \in 1..Len(vec) : IsCasingOf(vec[i], flag)

Occurrences(vec, x) == Cardinality({i \in 1..Len(vec) : vec[i] = x})

ChildStarted == child.state # "none"

\* the augmented vector has been built in this run
ArgsBuilt ==
    \/ pc \in {"spawn", "wait"}
    \/ pc = "done" /\ Occurrences(steps, "spawn") = 1

\* the entries placed in front of the caller's arguments
Inserted == SubSeq(args, 1, Len(args) - Len(V))

AbsentCount ==
    (IF Contains(V, FlagSval) THEN 0 ELSE 1)
    + (IF Contains(V, FlagSacl) THEN 0 ELSE 1)

ResolveFailed == pc = "done" /\ current_exe = None
TargetMissing == exists_result = Some(FALSE)
SpawnFailed ==
    pc = "done" /\ Occurrences(steps, "spawn") = 1 /\ ~ChildStarted

\* --------------------------------------------------------------- claims

\* C1: when the child was spawned and has terminated, the wrapper's exit
\* code is the child's exit code N for every N, and it is 1 when the child
\* terminated without a determinate exit code.
C1_ExitCodeRelayed ==
    (pc = "done" /\ child.state = "exited") =>
        /\ \A n \in ExitCodes : child.status = Some(n) => exit_code = Some(n)
        /\ child.status = None => exit_code = Some(1)

C1_Witness ==
    pc = "done" /\ child.state = "exited" /\ child.status = Some(3)
    /\ exit_code = Some(3)

\* C2: when V holds neither flag in any letter case, the vector built and
\* passed to the child is <<-sval, -sacl>> followed by V, of length Len(V)+2.
C2_BothPrepended ==
    (ArgsBuilt /\ ~Contains(V, FlagSval) /\ ~Contains(V, FlagSacl)) =>
        /\ args = <<FlagSval, FlagSacl>> \o V
        /\ Len(args) = Len(V) + 2
        /\ ChildStarted => child.args = <<FlagSval, FlagSacl>> \o V

C2_Witness ==
    /\ ChildStarted
    /\ V = <<TokFooSval, TokFooWixobj>>
    /\ child.args = <<FlagSval, FlagSacl, TokFooSval, TokFooWixobj>>

\* C3: the two flags are decided independently: V holding -sval (any case)
\* but not -sacl yields <<-sacl>> followed by V, V holding only -sacl yields
\* <<-sval>> followed by V, each of length Len(V)+1; for V = <<-sval,
\* foo.wixobj>> the child gets exactly <<-sacl, -sval, foo.wixobj>>.
C3_OnlyMissingFlagPrepended ==
    ArgsBuilt =>
        /\ (Contains(V, FlagSval) /\ ~Contains(V, FlagSacl)) =>
              /\ args = <<FlagSacl>> \o V
              /\ Len(args) = Len(V) + 1
        /\ (Contains(V, FlagSacl) /\ ~Contains(V, FlagSval)) =>
              /\ args = <<FlagSval>> \o V
              /\ Len(args) = Len(V) + 1
        /\ (ChildStarted /\ V = <<FlagSval, TokFooWixobj>>) =>
              child.args = <<FlagSacl, FlagSval, TokFooWixobj>>

C3_Witness ==
    /\ ChildStarted
    /\ V = <<FlagSval, TokFooWixobj>>
    /\ child.args = <<FlagSacl, FlagSval, TokFooWixobj>>

\* C4: when V holds both flags, in any letter case and at any positions, the
\* vector built and passed to the child is V itself.
C4_BothPresentUnchanged ==
    (ArgsBuilt /\ Contains(V, FlagSval) /\ Contains(V, FlagSacl)) =>
        /\ args = V
        /\ Len(args) = Len(V)
        /\ ChildStarted => child.args = V

C4_Witness ==
    /\ ChildStarted
    /\ V = <<TokFooWixobj, TokSaclUpper, TokSvalMixed>>
    /\ child.args = V

\* C5: presence is whole-token equality up to letter case: an argument
\* -SVAL (or another casing of -sval) suppresses the insertion of -sval,
\* while foo-sval, which only contains the flag, does not.
C5_WholeTokenCaseInsensitive ==
    ArgsBuilt =>
        /\ (\E i \in 1..Len(V) : V[i] \in {TokSvalUpper, TokSvalMixed}) =>
              Occurrences(Inserted, FlagSval) = 0
        /\ (\A i \in 1..Len(V) : V[i] \in {TokFooSval, TokFooWixobj}) =>
              /\ Len(args) > 0
              /\ args[1] = FlagSval

C5_Witness ==
    /\ ArgsBuilt
    /\ V = <<TokFooSval>>
    /\ args = <<FlagSval, FlagSacl, TokFooSval>>

\* C6: when the derived path (the directory of the wrapper's own path joined
\* with light-real.exe) does not exist, the wrapper writes a diagnostic
\* holding that path to standard error, exits with code 1, and spawns no
\* child in that run.
C6_MissingTarget ==
    TargetMissing =>
        /\ pc = "done"
        /\ exit_code = Some(1)
        /\ \E i \in 1..Len(stderr) : stderr[i].path = real_exe
        /\ Len(Unwrap(current_exe).comps) > 0 =>
              /\ Unwrap(real_exe).abs = Unwrap(current_exe).abs
              /\ Unwrap(real_exe).comps =
                    SubSeq(Unwrap(current_exe).comps, 1,
                           Len(Unwrap(current_exe).comps) - 1)
                    \o <<"light-real.exe">>
        /\ ~ChildStarted
        /\ Occurrences(steps, "spawn") = 0

C6_Witness ==
    /\ TargetMissing
    /\ pc = "done"
    /\ real_exe = Some([abs |-> TRUE, comps |-> <<"wix", "light-real.exe">>])
    /\ Len(stderr) = 1

\* C7: a child that cannot be started gives one diagnostic naming the target
\* path and the cause, exit code 1 and no second spawn attempt; each of the
\* three error kinds ends in exit code 1; the wrapper writes to standard
\* error on these failure paths and on no other.
C7_FailuresExitOne ==
    /\ SpawnFailed =>
          /\ exit_code = Some(1)
          /\ stderr = <<[kind |-> "spawn", path |-> real_exe,
                         cause |-> Some("e")]>>
          /\ Occurrences(steps, "spawn") = 1
    /\ (ResolveFailed \/ TargetMissing \/ SpawnFailed) =>
          pc = "done" /\ exit_code = Some(1) /\ Len(stderr) = 1
    /\ stderr # <<>> => (ResolveFailed \/ TargetMissing \/ SpawnFailed)

\* C8: for every V the final vector holds each enforced flag, the wrapper
\* inserts no flag that V already holds in some casing and at most one
\* occurrence of each, and the final length is Len(V) plus the number of
\* enforced flags absent from V.
C8_FlagsEnforcedOnce ==
    ArgsBuilt =>
        /\ Contains(args, FlagSval)
        /\ Contains(args, FlagSacl)
        /\ \A f \in {FlagSval, FlagSacl} :
              /\ Contains(V, f) => ~Contains(Inserted, f)
              /\ Occurrences(Inserted, f) <= 1
        /\ AbsentCount \in 0..2
        /\ Len(args) = Len(V) + AbsentCount

C8_Witness ==
    /\ ArgsBuilt
    /\ V = <<TokFooSval, TokSaclUpper>>
    /\ Len(args) = 3
    /\ Contains(args, FlagSval)

\* C9: the steps of a run occur in the order resolve, check, spawn, wait,
\* exit; at most one child is spawned, and only after the self path was
\* resolved and the existence check passed; a failing step ends the run;
\* after a successful spawn the wrapper exits only once the child has
\* terminated, and it does exit once the child has terminated.
Runs == { <<"resolve", "exit">>,
          <<"resolve", "check", "exit">>,
          <<"resolve", "check", "spawn", "exit">>,
          <<"resolve", "check", "spawn", "wait", "exit">> }

IsPrefix(s, t) == Len(s) <= Len(t) /\ SubSeq(t, 1, Len(s)) = s

C9_Order ==
    /\ \E r \in Runs : IsPrefix(steps, r)
    /\ pc = "done" <=> Occurrences(steps, "exit") = 1
    /\ Occurrences(steps, "spawn") <= 1
    /\ Occurrences(steps, "spawn") = 1 =>
          current_exe # None /\ exists_result = Some(TRUE)
    /\ ChildStarted => Occurrences(steps, "spawn") = 1
    /\ ResolveFailed => steps = <<"resolve", "exit">>
    /\ TargetMissing => steps = <<"resolve", "check", "exit">>
    /\ SpawnFailed => steps = <<"resolve", "check", "spawn", "exit">>
    /\ (ChildStarted /\ pc = "done") =>
          /\ child.state = "exited"
          /\ steps = <<"resolve", "check", "spawn", "wait", "exit">>
    /\ child.state = "running" => pc = "wait"

C9_StepsInOrder ==
    [](C9_Order) /\ ((child.state = "exited") ~> (pc = "done"))

C9_Witness ==
    /\ pc = "done"
    /\ child.state = "exited"
    /\ steps = <<"resolve", "check", "spawn", "wait", "exit">>

\* C10: augmentation is idempotent and keeps the caller's arguments: the
\* built vector, augmented again, is itself, and V is its suffix, unmodified
\* and in order, repeated flags included.
C10_IdempotentSuffix ==
    ArgsBuilt =>
        /\ AugmentArgs(args) = args
        /\ AugmentArgs(AugmentArgs(V)) = AugmentArgs(V)
        /\ Len(args) >= Len(V)
        /\ SubSeq(args, Len(args) - Len(V) + 1, Len(args)) = V

C10_Witness ==
    /\ ArgsBuilt
    /\ V = <<FlagSval, TokSvalUpper>>
    /\ args = <<FlagSacl, FlagSval, TokSvalUpper>>
    /\ AugmentArgs(args) = args
====
